---- MODULE Spec2Model ----
(***************************************************************************)
(* Model of library/parse_iperf3.py: an Ansible module that builds an      *)
(* iperf3 command line, runs it once, and turns the JSON report into a     *)
(* small summary whose bit rates are formatted by bitstoKMGT.              *)
(*                                                                         *)
(* Numbers.  TLC integers are 32 bits wide and the formatter's thresholds  *)
(* reach 10^12, so a bit rate is a pair <<m, u>> standing for              *)
(* m * 10^6 + u with 0 <= u < 10^6.  Every such value is below 2^53, so    *)
(* float(b) at line 285 is exact on it.                                    *)
(***************************************************************************)
EXTENDS Integers, Sequences, FiniteSets, TLC

VARIABLES
    pc,        \* position of main(): "start", "built", "ran", then a final one
    args,      \* the options the task gave the module
    params,    \* module.params after AnsibleModule applied the defaults
    cmd,       \* the list cmd of lines 335-361
    run_cmd,   \* " ".join(cmd), line 364
    rc, out, err,   \* what module.run_command returned, line 365
    payload,   \* json.loads(out), line 374
    res,       \* the dict res of lines 375-402
    result,    \* what exit_json / fail_json was given
    runs,      \* how many times run_command was called
    fpc, b, israw, ret   \* one call of bitstoKMGT: position, arguments, return value

vars == <<pc, args, params, cmd, run_cmd, rc, out, err, payload, res, result, runs,
          fpc, b, israw, ret>>

mainvars == <<pc, args, params, cmd, run_cmd, rc, out, err, payload, res, result, runs>>
fmtvars == <<fpc, b, israw, ret>>

(***************************************************************************)
(* Bounds of the model.                                                    *)
(***************************************************************************)
MaxOff == 2      \* formatter inputs lie within MaxOff of each threshold
MaxArg == 2      \* integer options range over 0..MaxArg
MaxRc == 2       \* exit codes range over 0..MaxRc
MaxRate == 2     \* reported bit rates: 1.0, 1.5, ... Mbit/s, MaxRate + 1 of them

(***************************************************************************)
(* Two-limb naturals.                                                      *)
(***************************************************************************)
Limb == 1000 * 1000

Lt(x, y) == x[1] < y[1] \/ (x[1] = y[1] /\ x[2] < y[2])
Le(x, y) == ~Lt(y, x)

\* Decimal text of n, left-padded with zeros to w digits.
RECURSIVE Pad(_, _)
Pad(n, w) == IF w <= 0 THEN "" ELSE Pad(n \div 10, w - 1) \o ToString(n % 10)

\* str() of the integer <<m, u>>.
IntText(x) == IF x[1] = 0 THEN ToString(x[2]) ELSE ToString(x[1]) \o Pad(x[2], 6)

(***************************************************************************)
(* bitstoKMGT, lines 281-300.                                              *)
(***************************************************************************)
Kb == <<0, 1000>>                       \* float(1000)
Mb == <<(Kb[2] * Kb[2]) \div Limb, 0>>   \* Kb**2
Gb == <<Mb[1] * Kb[2], 0>>               \* Kb**3
Tb == <<Gb[1] * Kb[2], 0>>               \* Kb**4

\* Width of the significand of a Python float (IEEE 754 binary64).
Significand == 53

\* One hundredth of a unit: the weight of the last digit "{0:.2f}" prints.
Cent(unit) ==
    IF unit[1] = 0 THEN <<0, unit[2] \div 100>>
    ELSE IF unit[1] >= 100 THEN <<unit[1] \div 100, 0>>
    ELSE <<0, unit[1] * (Limb \div 100)>>

\* x divided by c = Cent(unit): quotient (an integer) and remainder (two limbs).
Quot(x, c) ==
    IF c[1] = 0 THEN x[1] * (Limb \div c[2]) + x[2] \div c[2]
    ELSE x[1] \div c[1]
Rem(x, c) ==
    IF c[1] = 0 THEN <<0, x[2] % c[2]>>
    ELSE <<x[1] % c[1], x[2]>>
Half(c) == IF c[1] = 0 THEN <<0, c[2] \div 2>> ELSE <<c[1] \div 2, 0>>

RECURSIVE BitLen(_)
BitLen(i) == IF i = 0 THEN 0 ELSE 1 + BitLen(i \div 2)

RECURSIVE LeadingZeros(_)
LeadingZeros(r) == IF 2 * r >= 200 THEN 0 ELSE 1 + LeadingZeros(2 * r)

RECURSIVE Shift(_, _)
Shift(r, n) == IF n = 0 THEN r ELSE Shift((2 * r) % 200, n - 1)

\* b / unit is the double nearest to the quotient.  When the quotient is the
\* decimal tie (2q+1)/200, "{0:.2f}" rounds by where that double lies: above
\* the tie, below it, or on it (then half to even).  The double keeps
\* Significand bits; what is cut off is Shift(...)/200 of its last place.
TieRoundsUp(q) ==
    LET t == 2 * q + 1
        I == t \div 200
        r0 == t % 200
        kept == IF I > 0 THEN Significand - BitLen(I)
                ELSE Significand + LeadingZeros(r0)
        cut == Shift(r0, kept)
    IN  IF cut = 0 THEN q % 2 = 1 ELSE cut > 100

\* "{0:.2f}".format(b / unit), in hundredths.
Hundredths(x, unit) ==
    LET c == Cent(unit)
        q == Quot(x, c)
        r == Rem(x, c)
    IN  IF Lt(r, Half(c)) THEN q
        ELSE IF Lt(Half(c), r) THEN q + 1
        ELSE IF TieRoundsUp(q) THEN q + 1 ELSE q

Fixed2(h) == ToString(h \div 100) \o "." \o Pad(h % 100, 2)

\* "{0}".format(b) of a float holding an integer below 10^16.
FloatText(x) == IntText(x) \o ".0"

\* bitstoKMGT with each range closed above instead of below.
bitstoKMGT_ClosedAbove(x, raw) ==
    IF raw # 0 THEN x
    ELSE IF Lt(x, Kb)
        THEN FloatText(x) \o " "
             \o (IF (<<0, 0>> = x /\ Lt(<<0, 1>>, x)) THEN "Bytes" ELSE "Byte")
    ELSE IF Lt(Kb, x) /\ Le(x, Mb) THEN Fixed2(Hundredths(x, Kb)) \o " Kbps"
    ELSE IF Lt(Mb, x) /\ Le(x, Gb) THEN Fixed2(Hundredths(x, Mb)) \o " Mbps"
    ELSE IF Lt(Gb, x) /\ Le(x, Tb) THEN Fixed2(Hundredths(x, Gb)) \o " Gbps"
    ELSE IF Lt(Tb, x) THEN Fixed2(Hundredths(x, Tb)) \o " Tbps"
    ELSE "None"

bitstoKMGT(x, raw) ==
    IF raw # 0 THEN x
    ELSE IF Lt(x, Kb)
        THEN FloatText(x) \o " "
             \o (IF (<<0, 0>> = x /\ Lt(<<0, 1>>, x)) THEN "Bytes" ELSE "Byte")
    ELSE IF Le(Kb, x) /\ Lt(x, Mb) THEN Fixed2(Hundredths(x, Kb)) \o " Kbps"
    ELSE IF Le(Mb, x) /\ Lt(x, Gb) THEN Fixed2(Hundredths(x, Mb)) \o " Mbps"
    ELSE IF Le(Gb, x) /\ Lt(x, Tb) THEN Fixed2(Hundredths(x, Gb)) \o " Gbps"
    ELSE IF Le(Tb, x) THEN Fixed2(Hundredths(x, Tb)) \o " Tbps"
    ELSE "None"


(***************************************************************************)
(* One call of bitstoKMGT on inputs around every threshold and on values   *)
(* whose second decimal is a rounding tie.                                 *)
(***************************************************************************)
\* n * x for a small n.
Mul(n, x) == <<n * x[1] + (n * x[2]) \div Limb, (n * x[2]) % Limb>>

\* x + d for a small d of either sign; <<-1, _>> when the sum is negative.
Plus(x, d) ==
    LET u == x[2] + d
    IN  IF u < 0 THEN <<x[1] - 1, u + Limb>>
        ELSE IF u >= Limb THEN <<x[1] + 1, u - Limb>>
        ELSE <<x[1], u>>

Thresholds == {<<0, 0>>, Kb, Mb, Gb, Tb}
Thousandths == {1005, 1015, 1125, 1375, 1500, 999994, 999995, 999999}
FmtInputs ==
    {x \in {Plus(t, d) : t \in Thresholds, d \in (0 - MaxOff)..MaxOff} : x[1] >= 0}
    \cup {Mul(n, <<u[1] \div 1000, (u[1] % 1000) * 1000 + u[2] \div 1000>>) :
            n \in Thousandths, u \in {Kb, Mb, Gb, Tb}}

FmtInit ==
    /\ fpc = "call"
    /\ b \in FmtInputs
    /\ israw \in {0, 1}
    /\ ret = ""
    /\ pc = "idle" /\ args = <<>> /\ params = <<>> /\ cmd = <<>> /\ run_cmd = ""
    /\ rc = -1 /\ out = "" /\ err = "" /\ payload = <<>> /\ res = <<>>
    /\ result = <<>> /\ runs = 0

Call ==
    /\ fpc = "call"
    /\ fpc' = "returned"
    /\ ret' = bitstoKMGT(b, israw)
    /\ UNCHANGED <<b, israw>>
    /\ UNCHANGED mainvars

FmtNext == Call

FmtSpec == FmtInit /\ [][FmtNext]_vars

(***************************************************************************)
(* Options.  None is <<>> and a given value v is <<v>>, so that an option   *)
(* of any type can be absent.                                              *)
(***************************************************************************)
None == <<>>
Some(v) == <<v>>

IntOptions == {"time", "port", "interval", "streams", "connection_timeout"}
StrOptions == {"bind", "bitrate", "length"}
BoolOptions == {"udp", "reverse"}
Options == IntOptions \cup StrOptions \cup BoolOptions

Dest == "127.0.0.1"

\* The values a task may give an option: falsy ones and truthy ones.
Values(k) ==
    IF k \in IntOptions THEN {Some(n) : n \in 0..MaxArg}
    ELSE IF k \in BoolOptions THEN {Some(FALSE), Some(TRUE)}
    ELSE IF k = "bind" THEN {Some(""), Some("eth0")}
    ELSE IF k = "bitrate" THEN {Some(""), Some("10M/4")}
    ELSE {Some(""), Some("128K")}

OnlyDest == [k \in Options \cup {"dest"} |-> IF k = "dest" THEN Some(Dest) ELSE None]
AllFalsy ==
    [k \in Options \cup {"dest"} |->
        IF k = "dest" THEN Some(Dest)
        ELSE IF k \in IntOptions THEN Some(0)
        ELSE IF k \in BoolOptions THEN Some(FALSE)
        ELSE Some("")]
AllTruthy ==
    [k \in Options \cup {"dest"} |->
        IF k = "dest" THEN Some(Dest)
        ELSE IF k \in IntOptions THEN Some(MaxArg)
        ELSE IF k \in BoolOptions THEN Some(TRUE)
        ELSE IF k = "bind" THEN Some("eth0")
        ELSE IF k = "bitrate" THEN Some("10M/4")
        ELSE Some("128K")]

\* Task arguments: dest alone, dest with one or two options given, every
\* option given a falsy value, every option given a truthy value.
ArgSets ==
    {[[OnlyDest EXCEPT ![k1] = v1] EXCEPT ![k2] = v2] :
        <<k1, v1, k2, v2>> \in
            UNION {{<<x, v, y, w>> : v \in Values(x) \cup {None}, w \in Values(y)} :
                   <<x, y>> \in Options \X Options}}
    \cup {OnlyDest, AllFalsy, AllTruthy}

\* The argument_spec of lines 305-317: the defaults AnsibleModule fills in.
DefaultTime == 5
DefaultStreams == 1
DefaultConnectionTimeout == 5
fields(k) ==
    IF k = "time" THEN Some(DefaultTime)
    ELSE IF k = "streams" THEN Some(DefaultStreams)
    ELSE IF k = "connection_timeout" THEN Some(DefaultConnectionTimeout)
    ELSE None

\* module.params, line 319.
AnsibleModule(a) == [k \in DOMAIN a |-> IF a[k] = None THEN fields(k) ELSE a[k]]

\* Python truth of an option value, by the option's type.
\* "is not None" in place of truth.
TruthyInt_NotNone(o) == o # None
TruthyInt(o) == o # None /\ o[1] # 0
TruthyStr(o) == o # None /\ o[1] # ""
TruthyBool(o) == o # None /\ o[1]

(***************************************************************************)
(* The command, lines 335-364.                                             *)
(***************************************************************************)
\* The timeout left in seconds.
ConnectTimeoutSeconds(t) == t
ConnectTimeoutMs(t) == t * 1000

Flag(cond, text) == IF cond THEN <<text>> ELSE <<>>

BuildCmd(p) ==
    <<"iperf3">>
    \o <<"-c " \o p.dest[1]>>
    \o <<"-J">>
    \o Flag(TruthyInt(p.connection_timeout),
            "--connect-timeout " \o ToString(ConnectTimeoutMs(p.connection_timeout[1])))
    \o Flag(TruthyInt(p.time), "--time " \o ToString(p.time[1]))
    \o Flag(TruthyInt(p.port), "--port " \o ToString(p.port[1]))
    \o Flag(TruthyStr(p.bind), "--bind " \o p.bind[1])
    \o Flag(TruthyBool(p.udp), "--udp")
    \o Flag(TruthyInt(p.interval), "--interval " \o ToString(p.interval[1]))
    \o Flag(TruthyStr(p.bitrate), "--bitrate " \o p.bitrate[1])
    \o Flag(TruthyStr(p.length), "--length " \o p.length[1])
    \o Flag(TruthyInt(p.streams), "--parallel " \o ToString(p.streams[1]))
    \o Flag(TruthyBool(p.reverse), "--reverse")

\* sep.join(seq)
RECURSIVE Join(_, _)
Join(seq, sep) ==
    IF seq = <<>> THEN ""
    ELSE IF Len(seq) = 1 THEN seq[1]
    ELSE seq[1] \o sep \o Join(Tail(seq), sep)

\* needle in text
Contains(text, needle) ==
    \E i \in 1..(Len(text) - Len(needle) + 1) :
        SubSeq(text, i, i + Len(needle) - 1) = needle

(***************************************************************************)
(* What iperf3 may print.  A report is a JSON document; json.loads is the  *)
(* inverse of JsonText on the documents of the model and fails on every    *)
(* other text.                                                             *)
(***************************************************************************)
Marker == "unable to connect to server"

Has(d, k) == k \in DOMAIN d

Conn == [local_host |-> "127.0.0.1", local_port |-> 35020,
         remote_host |-> "127.0.0.1", remote_port |-> 5201]
Start == [connected |-> <<Conn>>]

Rates == {Mul(k, <<0, 500000>>) : k \in 2..(MaxRate + 2)}
Aggregates == {[bits_per_second |-> r, sender |-> f] : r \in Rates, f \in BOOLEAN}
OneAggregate == [bits_per_second |-> <<1, 0>>, sender |-> TRUE]

UdpReports == {[start |-> Start, end |-> [sum |-> a]] : a \in Aggregates}
TcpReports ==
    {[start |-> Start, end |-> [sum_sent |-> a, sum_received |-> c]] :
        a \in Aggregates, c \in Aggregates}
\* Documents that are JSON and lack something main() reads.
BrokenReports ==
    { [start |-> [connected |-> <<>>],
       error |-> "error - unable to connect to server: Connection refused"],
      [end |-> [sum |-> OneAggregate, sum_sent |-> OneAggregate,
                sum_received |-> OneAggregate]],
      [start |-> Start],
      [start |-> Start, end |-> [sum_sent |-> OneAggregate]],
      [start |-> Start, end |-> [sum_received |-> OneAggregate]],
      [start |-> Start,
       end |-> [sum |-> [bits_per_second |-> <<1, 0>>],
                sum_sent |-> [bits_per_second |-> <<1, 0>>],
                sum_received |-> OneAggregate]],
      [start |-> [connected |-> <<[local_host |-> "127.0.0.1", local_port |-> 35020]>>],
       end |-> [sum |-> OneAggregate, sum_sent |-> OneAggregate,
                sum_received |-> OneAggregate]] }
Documents == UdpReports \cup TcpReports \cup BrokenReports

Quoted(t) == "\"" \o t \o "\""
Member(d, k, text) == IF Has(d, k) THEN <<Quoted(k) \o ":" \o text>> ELSE <<>>
Object(members) == "{" \o Join(members, ",") \o "}"

AggregateText(a) ==
    Object(Member(a, "bits_per_second",
                  IF Has(a, "bits_per_second") THEN IntText(a.bits_per_second) ELSE "")
           \o Member(a, "sender",
                     IF Has(a, "sender") THEN (IF a.sender THEN "true" ELSE "false")
                     ELSE ""))
ConnText(c) ==
    Object(Member(c, "local_host", IF Has(c, "local_host") THEN Quoted(c.local_host) ELSE "")
           \o Member(c, "local_port",
                     IF Has(c, "local_port") THEN ToString(c.local_port) ELSE "")
           \o Member(c, "remote_host",
                     IF Has(c, "remote_host") THEN Quoted(c.remote_host) ELSE "")
           \o Member(c, "remote_port",
                     IF Has(c, "remote_port") THEN ToString(c.remote_port) ELSE ""))
StartText(st) ==
    Object(<<Quoted("connected") \o ":["
             \o Join([i \in 1..Len(st.connected) |-> ConnText(st.connected[i])], ",")
             \o "]">>)
EndText(e) ==
    Object(Member(e, "sum", IF Has(e, "sum") THEN AggregateText(e.sum) ELSE "")
           \o Member(e, "sum_sent",
                     IF Has(e, "sum_sent") THEN AggregateText(e.sum_sent) ELSE "")
           \o Member(e, "sum_received",
                     IF Has(e, "sum_received") THEN AggregateText(e.sum_received) ELSE ""))
JsonText(d) ==
    Object(Member(d, "start", IF Has(d, "start") THEN StartText(d.start) ELSE "")
           \o Member(d, "end", IF Has(d, "end") THEN EndText(d.end) ELSE "")
           \o Member(d, "error", IF Has(d, "error") THEN Quoted(d.error) ELSE ""))

\* Texts that are not JSON.
PlainTexts == {"", "iperf3: error - unable to connect to server: Connection refused"}
Stdouts == {JsonText(d) : d \in Documents} \cup PlainTexts
Stderrs == {"", "iperf3: interrupt - the client has terminated"}
ExitCodes == 0..MaxRc

\* json.loads: the document whose text this is; JSONDecodeError when there is none.
JSONDecodeError == [raised |-> "JSONDecodeError"]
Parsed == [t \in Stdouts |->
            IF \E d \in Documents : JsonText(d) = t
            THEN CHOOSE d \in Documents : JsonText(d) = t
            ELSE JSONDecodeError]
json_loads(text) == Parsed[text]

(***************************************************************************)
(* The summary, lines 374-402.                                             *)
(***************************************************************************)
KeyError == [raised |-> "KeyError"]

\* Every subscript of lines 376-402 finds its key (and connected its entry 0).
Extractable(p, udp) ==
    /\ Has(p, "start") /\ Has(p.start, "connected") /\ Len(p.start.connected) >= 1
    /\ \A k \in {"local_host", "local_port", "remote_host", "remote_port"} :
            Has(p.start.connected[1], k)
    /\ Has(p, "end")
    /\ IF udp
       THEN /\ Has(p.end, "sum")
            /\ Has(p.end.sum, "sender") /\ Has(p.end.sum, "bits_per_second")
       ELSE /\ Has(p.end, "sum_received") /\ Has(p.end.sum_received, "bits_per_second")
            /\ Has(p.end, "sum_sent") /\ Has(p.end.sum_sent, "bits_per_second")
            /\ Has(p.end.sum_sent, "sender")

Endpoints(p) ==
    [local_host |-> p.start.connected[1].local_host,
     local_port |-> p.start.connected[1].local_port,
     remote_host |-> p.start.connected[1].remote_host,
     remote_port |-> p.start.connected[1].remote_port]

\* Both throughput fields filled in UDP mode.
UdpSummaryBoth(p) ==
    LET issender == p.end.sum.sender
        bps == p.end.sum.bits_per_second
    IN  [total_sent |-> bitstoKMGT(bps, 0), total_received |-> bitstoKMGT(bps, 0),
         type |-> IF issender THEN "sender" ELSE "receiver"]

\* Lines 381-389.
UdpSummary(p) ==
    LET issender == p.end.sum.sender
        bps == p.end.sum.bits_per_second
    IN  IF issender
        THEN [total_sent |-> bitstoKMGT(bps, 0), type |-> "sender"]
        ELSE [total_received |-> bitstoKMGT(bps, 0), type |-> "receiver"]

\* The role read from the received aggregate.
TcpSummaryByReceived(p) ==
    LET issender == p.end.sum_received.sender
    IN  [total_received |-> bitstoKMGT(p.end.sum_received.bits_per_second, 0),
         total_sent |-> bitstoKMGT(p.end.sum_sent.bits_per_second, 0),
         type |-> IF issender THEN "sender" ELSE "receiver"]

\* Lines 391-402.
TcpSummary(p) ==
    LET issender == p.end.sum_sent.sender
    IN  [total_received |-> bitstoKMGT(p.end.sum_received.bits_per_second, 0),
         total_sent |-> bitstoKMGT(p.end.sum_sent.bits_per_second, 0),
         type |-> IF issender THEN "sender" ELSE "receiver"]

\* A summary of defaults in place of the exception.
ExtractOutcomeDefaults(text, udp) ==
    LET p == json_loads(text)
    IN  IF p = JSONDecodeError \/ ~Extractable(p, udp)
        THEN [res |-> [type |-> "receiver"]]
        ELSE [res |-> Endpoints(p) @@ (IF udp THEN UdpSummary(p) ELSE TcpSummary(p))]

\* Lines 374-402 as a whole: the dict res, or the exception that ends main().
ExtractOutcome(text, udp) ==
    LET p == json_loads(text)
    IN  IF p = JSONDecodeError THEN JSONDecodeError
        ELSE IF ~Extractable(p, udp) THEN KeyError
        ELSE [res |-> Endpoints(p) @@ (IF udp THEN UdpSummary(p) ELSE TcpSummary(p))]

(***************************************************************************)
(* main(), lines 303-408.                                                  *)
(***************************************************************************)
Unset == [unset |-> TRUE]
NoResult == [call |-> "none"]

\* Equality with the marker in place of containment.
MsgWhenEqual(o) == IF o = Marker THEN Marker ELSE ""

\* Lines 368-370.
Msg(o) == IF Contains(o, Marker) THEN Marker ELSE ""

\* The conditions of lines 367 and 373.
Failed(code) == code = 1
\* "not 1" in place of "0".
SucceededUnlessOne(code) == code # 1
Succeeded(code) == code = 0

Init ==
    /\ pc = "start"
    /\ args \in ArgSets
    /\ params = AnsibleModule(args)
    /\ cmd = <<>> /\ run_cmd = ""
    /\ rc = -1 /\ out = "" /\ err = ""
    /\ payload = Unset /\ res = Unset /\ result = NoResult
    /\ runs = 0
    /\ fpc = "idle" /\ b = <<0, 0>> /\ israw = 0 /\ ret = ""

\* Lines 335-364.
BuildCommand ==
    /\ pc = "start"
    /\ cmd' = BuildCmd(params)
    /\ run_cmd' = Join(cmd', " ")
    /\ pc' = "built"
    /\ UNCHANGED <<args, params, rc, out, err, payload, res, result, runs>>
    /\ UNCHANGED fmtvars

\* run_command in a retry loop: run again after a non-zero exit code.
RunCommandRetry ==
    /\ \/ pc = "built"
       \/ pc = "ran" /\ rc # 0 /\ runs < 3
    /\ rc' \in ExitCodes
    /\ out' \in Stdouts
    /\ err' \in Stderrs
    /\ runs' = runs + 1
    /\ pc' = "ran"
    /\ UNCHANGED <<args, params, cmd, run_cmd, payload, res, result>>
    /\ UNCHANGED fmtvars

\* Line 365: iperf3 runs to its end and hands back whatever it will.
RunCommand ==
    /\ pc = "built"
    /\ rc' \in ExitCodes
    /\ out' \in Stdouts
    /\ err' \in Stderrs
    /\ runs' = runs + 1
    /\ pc' = "ran"
    /\ UNCHANGED <<args, params, cmd, run_cmd, payload, res, result>>
    /\ UNCHANGED fmtvars

\* Lines 367-371; fail_json ends the process.
FailJson ==
    /\ pc = "ran"
    /\ Failed(rc)
    /\ result' = [call |-> "fail_json",
                  kwargs |-> [changed |-> FALSE, stdout |-> out, rc |-> rc,
                              stderr |-> err, cmd |-> run_cmd, msg |-> Msg(out)]]
    /\ pc' = "failed"
    /\ UNCHANGED <<args, params, cmd, run_cmd, rc, out, err, payload, res, runs>>
    /\ UNCHANGED fmtvars

\* Lines 373-406 when nothing raises; exit_json ends the process.
Extract ==
    /\ pc = "ran"
    /\ ~Failed(rc)
    /\ Succeeded(rc)
    /\ Has(ExtractOutcome(out, TruthyBool(params.udp)), "res")
    /\ payload' = json_loads(out)
    /\ res' = ExtractOutcome(out, TruthyBool(params.udp)).res
    /\ result' = [call |-> "exit_json",
                  kwargs |-> [changed |-> FALSE, stdout |-> out, rc |-> rc,
                              stderr |-> err, cmd |-> run_cmd, parsed |-> res']]
    /\ pc' = "exited"
    /\ UNCHANGED <<args, params, cmd, run_cmd, rc, out, err, runs>>
    /\ UNCHANGED fmtvars

\* Lines 373-402 when json.loads or a subscript raises: nothing catches it.
ExtractRaises ==
    /\ pc = "ran"
    /\ ~Failed(rc)
    /\ Succeeded(rc)
    /\ Has(ExtractOutcome(out, TruthyBool(params.udp)), "raised")
    /\ payload' = IF json_loads(out) = JSONDecodeError THEN payload ELSE json_loads(out)
    /\ pc' = "raised"
    /\ UNCHANGED <<args, params, cmd, run_cmd, rc, out, err, res, result, runs>>
    /\ UNCHANGED fmtvars

\* Line 408.
PassThrough ==
    /\ pc = "ran"
    /\ ~Failed(rc)
    /\ ~Succeeded(rc)
    /\ result' = [call |-> "exit_json",
                  kwargs |-> [changed |-> FALSE, stdout |-> out, rc |-> rc,
                              stderr |-> err, cmd |-> run_cmd]]
    /\ pc' = "exited"
    /\ UNCHANGED <<args, params, cmd, run_cmd, rc, out, err, payload, res, runs>>
    /\ UNCHANGED fmtvars

Next ==
    \/ BuildCommand
    \/ RunCommand
    \/ FailJson
    \/ Extract
    \/ ExtractRaises
    \/ PassThrough

Spec == Init /\ [][Next]_vars

(***************************************************************************)
(* Helpers of the properties.                                              *)
(***************************************************************************)
StartsWith(text, prefix) ==
    Len(text) >= Len(prefix) /\ SubSeq(text, 1, Len(prefix)) = prefix
EndsWith(text, suffix) ==
    Len(text) >= Len(suffix)
    /\ SubSeq(text, Len(text) - Len(suffix) + 1, Len(text)) = suffix

Digit(ch) == CHOOSE d \in 0..9 : ToString(d) = ch
RECURSIVE Number(_)
Number(t) ==
    IF t = "" THEN 0
    ELSE 10 * Number(SubSeq(t, 1, Len(t) - 1)) + Digit(SubSeq(t, Len(t), Len(t)))

\* The hundredths a text "W.DD Xbps" shows.
ShownHundredths(t) ==
    Number(SubSeq(t, 1, Len(t) - 8) \o SubSeq(t, Len(t) - 6, Len(t) - 5))

\* The unit a rate belongs to: its suffix and one hundredth of the unit.
UnitByRange(x) ==
    IF Lt(x, <<1, 0>>) THEN [suffix |-> " Kbps", cent |-> <<0, 10>>]
    ELSE IF Lt(x, <<1000, 0>>) THEN [suffix |-> " Mbps", cent |-> <<0, 10000>>]
    ELSE IF Lt(x, <<1000000, 0>>) THEN [suffix |-> " Gbps", cent |-> <<10, 0>>]
    ELSE [suffix |-> " Tbps", cent |-> <<10000, 0>>]

\* How many entries of cmd carry the flag.
Count(flag) ==
    Cardinality({i \in 1..Len(cmd) : cmd[i] = flag \/ StartsWith(cmd[i], flag \o " ")})
Entries == {cmd[i] : i \in 1..Len(cmd)}

Ended == pc \in {"exited", "failed", "raised"}
Udp == params.udp = Some(TRUE)

(***************************************************************************)
(* C1.  With raw mode off, every rate of at least 1000 is formatted in     *)
(* the unit of its base-1000 half-open range: the text is the rate divided *)
(* by the unit, rounded to the nearest hundredth and written with two      *)
(* decimals, then the unit's suffix; 1000, 10^6, 10^9 and 10^12 give       *)
(* "1.00 Kbps", "1.00 Mbps", "1.00 Gbps" and "1.00 Tbps"; no such rate is  *)
(* left without a text.                                                    *)
(***************************************************************************)
C1_UnitByRange ==
    (fpc = "returned" /\ israw = 0 /\ ~Lt(b, <<0, 1000>>)) =>
        LET u == UnitByRange(b)
        IN  /\ Len(ret) >= 9
            /\ EndsWith(ret, u.suffix)
            /\ SubSeq(ret, Len(ret) - 7, Len(ret) - 7) = "."
            /\ LET h == ShownHundredths(ret)
               IN  /\ ret = ToString(h \div 100) \o "." \o Pad(h % 100, 2) \o u.suffix
                   /\ Le(Mul(2 * h - 1, u.cent), Mul(2, b))
                   /\ Le(Mul(2, b), Mul(2 * h + 1, u.cent))
            /\ (b = <<0, 1000>> => ret = "1.00 Kbps")
            /\ (b = <<1, 0>> => ret = "1.00 Mbps")
            /\ (b = <<1000, 0>> => ret = "1.00 Gbps")
            /\ (b = <<1000000, 0>> => ret = "1.00 Tbps")

C1_Witness ==
    fpc = "returned" /\ israw = 0 /\ b = <<1000000, 0>> /\ ret = "1.00 Tbps"

(***************************************************************************)
(* C2.  With raw mode off, a rate below 1000 is written as its literal     *)
(* value followed by the unit word, which is "Bytes" for 0 and "Byte" for  *)
(* every other rate below 1000.                                            *)
(***************************************************************************)
C2_BytesForZero ==
    (fpc = "returned" /\ israw = 0 /\ Lt(b, <<0, 1000>>)) =>
        /\ StartsWith(ret, ToString(b[2]))
        /\ EndsWith(ret, IF b = <<0, 0>> THEN " Bytes" ELSE " Byte")

(***************************************************************************)
(* C3.  The built command holds "-c <dest>" once and "-J" once, and each   *)
(* optional flag once when its option is truthy and not at all when the    *)
(* option is None, False, 0 or the empty string.                           *)
(***************************************************************************)
C3_FlagsOnceIffTruthy ==
    pc \notin {"start", "idle"} =>
        /\ Count("-c") = 1
        /\ ("-c " \o params.dest[1]) \in Entries
        /\ Count("-J") = 1
        /\ \A f \in
              { <<"--connect-timeout", params.connection_timeout \notin {None, Some(0)}>>,
                <<"--time", params.time \notin {None, Some(0)}>>,
                <<"--port", params.port \notin {None, Some(0)}>>,
                <<"--bind", params.bind \notin {None, Some("")}>>,
                <<"--udp", params.udp \notin {None, Some(FALSE)}>>,
                <<"--interval", params.interval \notin {None, Some(0)}>>,
                <<"--bitrate", params.bitrate \notin {None, Some("")}>>,
                <<"--length", params.length \notin {None, Some("")}>>,
                <<"--parallel", params.streams \notin {None, Some(0)}>>,
                <<"--reverse", params.reverse \notin {None, Some(FALSE)}>> } :
              Count(f[1]) = IF f[2] THEN 1 ELSE 0

C3_Witness ==
    /\ pc = "built"
    /\ args.udp = Some(TRUE) /\ args.port = Some(0)
    /\ Count("--udp") = 1 /\ Count("--port") = 0
    /\ Count("-c") = 1 /\ Count("-J") = 1

(***************************************************************************)
(* C4.  A positive connection_timeout of t seconds is passed as            *)
(* "--connect-timeout" with t*1000; time, port, bind, interval, bitrate,   *)
(* length and streams are passed unchanged; dest alone gives               *)
(* "--connect-timeout 5000 --time 5 --parallel 1".                         *)
(***************************************************************************)
C4_TimeoutInMilliseconds ==
    pc \notin {"start", "idle"} =>
        /\ params.connection_timeout \notin {None, Some(0)} =>
              ("--connect-timeout " \o ToString(params.connection_timeout[1]) \o "000")
                  \in Entries
        /\ params.time \notin {None, Some(0)} =>
              ("--time " \o ToString(params.time[1])) \in Entries
        /\ params.port \notin {None, Some(0)} =>
              ("--port " \o ToString(params.port[1])) \in Entries
        /\ params.bind \notin {None, Some("")} =>
              ("--bind " \o params.bind[1]) \in Entries
        /\ params.interval \notin {None, Some(0)} =>
              ("--interval " \o ToString(params.interval[1])) \in Entries
        /\ params.bitrate \notin {None, Some("")} =>
              ("--bitrate " \o params.bitrate[1]) \in Entries
        /\ params.length \notin {None, Some("")} =>
              ("--length " \o params.length[1]) \in Entries
        /\ params.streams \notin {None, Some(0)} =>
              ("--parallel " \o ToString(params.streams[1])) \in Entries
        /\ (\A k \in Options : args[k] = None) =>
              run_cmd = "iperf3 -c " \o args.dest[1]
                        \o " -J --connect-timeout 5000 --time 5 --parallel 1"

C4_Witness ==
    /\ pc = "built"
    /\ \A k \in Options : args[k] = None
    /\ run_cmd = "iperf3 -c 127.0.0.1 -J --connect-timeout 5000 --time 5 --parallel 1"

C7_UdpOneThroughputField ==
    (pc = "exited" /\ rc = 0 /\ Udp) =>
        /\ result.call = "exit_json"
        /\ "parsed" \in DOMAIN result.kwargs
        /\ LET sum == payload.end.sum
               parsed == result.kwargs.parsed
           IN  /\ sum.sender =>
                     /\ DOMAIN parsed \cap {"total_sent", "total_received"} = {"total_sent"}
                     /\ parsed.total_sent = bitstoKMGT(sum.bits_per_second, 0)
                     /\ parsed.type = "sender"
               /\ ~sum.sender =>
                     /\ DOMAIN parsed \cap {"total_sent", "total_received"}
                            = {"total_received"}
                     /\ parsed.total_received = bitstoKMGT(sum.bits_per_second, 0)
                     /\ parsed.type = "receiver"
               /\ (sum.sender /\ sum.bits_per_second = <<1, 0>>) =>
                     parsed.total_sent = "1.00 Mbps"

C7_Witness ==
    /\ pc = "exited" /\ rc = 0 /\ Udp
    /\ payload.end.sum = [bits_per_second |-> <<1, 0>>, sender |-> TRUE]
    /\ result.kwargs.parsed.type = "sender"
    /\ result.kwargs.parsed.total_sent = "1.00 Mbps"
    /\ "total_received" \notin DOMAIN result.kwargs.parsed

(***************************************************************************)
(* C8.  On exit code 0 outside UDP mode the summary has total_received,    *)
(* formatted from end.sum_received, and total_sent, formatted from         *)
(* end.sum_sent, and its type is "sender" exactly when end.sum_sent.sender *)
(* is true, whatever end.sum_received.sender and the reverse option are.   *)
(***************************************************************************)
C8_TcpBothThroughputFields ==
    (pc = "exited" /\ rc = 0 /\ ~Udp) =>
        /\ result.call = "exit_json"
        /\ "parsed" \in DOMAIN result.kwargs
        /\ LET parsed == result.kwargs.parsed
           IN  /\ {"total_received", "total_sent", "type"} \subseteq DOMAIN parsed
               /\ parsed.total_received
                      = bitstoKMGT(payload.end.sum_received.bits_per_second, 0)
               /\ parsed.total_sent = bitstoKMGT(payload.end.sum_sent.bits_per_second, 0)
               /\ parsed.type = IF payload.end.sum_sent.sender THEN "sender" ELSE "receiver"
               /\ (/\ payload.end.sum_sent.bits_per_second = <<2, 0>>
                   /\ payload.end.sum_received.bits_per_second = <<1, 500000>>) =>
                     parsed.total_sent = "2.00 Mbps" /\ parsed.total_received = "1.50 Mbps"

C8_Witness ==
    /\ pc = "exited" /\ rc = 0 /\ ~Udp
    /\ params.reverse = Some(TRUE)
    /\ payload.end.sum_sent = [bits_per_second |-> <<2, 0>>, sender |-> TRUE]
    /\ payload.end.sum_received = [bits_per_second |-> <<1, 500000>>, sender |-> FALSE]
    /\ result.kwargs.parsed.total_sent = "2.00 Mbps"
    /\ result.kwargs.parsed.total_received = "1.50 Mbps"
    /\ result.kwargs.parsed.type = "sender"

(***************************************************************************)
(* C9.  On exit code 0, when stdout is not JSON, or the report lacks       *)
(* start.connected[0] or one of its endpoints, or end.sum in UDP mode, or  *)
(* end.sum_sent or end.sum_received otherwise, the error propagates: no    *)
(* summary is made and no result of any kind is emitted.                   *)
(***************************************************************************)
JsonTexts == {JsonText(d) : d \in Documents}
Lacks(d, udp) ==
    \/ ~Has(d, "start")
    \/ Len(d.start.connected) = 0
    \/ \E k \in {"local_host", "local_port", "remote_host", "remote_port"} :
            ~Has(d.start.connected[1], k)
    \/ ~Has(d, "end")
    \/ udp /\ ~Has(d.end, "sum")
    \/ ~udp /\ (~Has(d.end, "sum_sent") \/ ~Has(d.end, "sum_received"))

C10_AlwaysReturnedFields ==
    pc \in {"exited", "failed"} =>
        {"stdout", "stderr", "rc", "cmd", "parsed"} \subseteq DOMAIN result.kwargs

(***************************************************************************)
(* C11.  Every invocation goes: build the whole command, run the process,  *)
(* branch on its exit code, and only on exit code 0 decode and extract.    *)
(* The process is run once and never again, whatever its exit code, and at *)
(* most one result (failure, success with summary, raw pass-through) is    *)
(* emitted, always after the process has completed.                        *)
(***************************************************************************)
C11_StepsInOrder ==
    [][ /\ <<pc, pc'>> \in { <<"start", "built">>, <<"built", "ran">>,
                             <<"ran", "failed">>, <<"ran", "exited">>,
                             <<"ran", "raised">> }
        \* the command is built first, whole, and never touched again
        /\ (cmd' # cmd \/ run_cmd' # run_cmd) => (pc = "start" /\ runs = 0)
        /\ pc' = "built" => (Len(cmd') >= 3 /\ run_cmd' # "")
        \* the process runs in the second step and in no other
        /\ runs' = IF pc = "built" THEN runs + 1 ELSE runs
        /\ runs' <= 1
        /\ (rc' # rc \/ out' # out \/ err' # err) => pc = "built"
        \* the branch follows the run and goes by the exit code
        /\ pc' \in {"failed", "exited", "raised"} => (pc = "ran" /\ runs' = 1)
        /\ pc' = "failed" => rc = 1
        /\ pc' = "raised" => rc = 0
        \* decoding and extraction happen on exit code 0 alone
        /\ (payload' # payload \/ res' # res) => (pc = "ran" /\ rc = 0 /\ runs = 1)
        \* one result at most, and none before the process has completed
        /\ result' # result =>
              /\ result = NoResult
              /\ pc = "ran" /\ runs = 1
              /\ pc' \in {"failed", "exited"}
      ]_vars

C11_Witness ==
    /\ pc = "exited" /\ runs = 1 /\ rc = 0
    /\ payload # Unset
    /\ result.call = "exit_json" /\ "parsed" \in DOMAIN result.kwargs
    /\ result.kwargs.cmd = run_cmd /\ run_cmd # ""

====
